---- MODULE Spec2Model ----
(***************************************************************************)
(* Model of src/junit_test_generator.py: the JUnitTestGenerator window,    *)
(* its Generate / Copy handlers, the worker thread running                 *)
(* call_openai_api, and Tk's main loop delivering root.after callbacks.    *)
(*                                                                         *)
(* Text is a sequence of one-character strings.  A fixed literal of the    *)
(* program whose inner characters no operation looks at (the instruction   *)
(* text of the prompt, the "API Error: " and "Error: " prefixes, the text  *)
(* of an exception) is carried as one element of the sequence.             *)
(***************************************************************************)
EXTENDS Integers, Sequences, FiniteSets, TLC

\* ------------------------------------------------------------------ bounds

\* Worker-thread slots.  The program itself never holds more than one.
MaxThreads == 2
\* Pending 2000 ms "Ready" timers (one is armed by every Copy click).
MaxTimers == 1
\* Number of pieces a completion text is assembled from (extraction inputs).
MaxPieces == 4

\* -------------------------------------------------------------- text (str)

\* the backtick character (chr 96), which a TLA+ string cannot hold, by name
BT == "BACKTICK"
OpenMarker == <<BT, BT, BT, "j", "a", "v", "a">>
Fence == <<BT, BT, BT>>
JavaSuffix == <<".", "j", "a", "v", "a">>
Whitespace == {" ", "\n"}

\* s[i..] starts with sub
MatchAt(s, sub, i) ==
    /\ i >= 1
    /\ i + Len(sub) - 1 <= Len(s)
    /\ \A k \in 1..Len(sub) : s[i + k - 1] = sub[k]

\* str.find, 1-based, 0 when absent: the first occurrence at or after from
Find(s, sub, from) ==
    LET hits == {i \in from..(Len(s) - Len(sub) + 1) : MatchAt(s, sub, i)}
    IN  IF hits = {} THEN 0 ELSE CHOOSE i \in hits : \A j \in hits : i <= j

\* sub in s
Contains(s, sub) == Find(s, sub, 1) # 0

\* s.endswith(sub)
EndsWith(s, sub) ==
    /\ Len(sub) <= Len(s)
    /\ MatchAt(s, sub, Len(s) - Len(sub) + 1)

\* s.split(sep): the pieces between the non-overlapping occurrences of sep,
\* found left to right (rest[from] is the split of s from position from on)
Split(s, sep) ==
    LET rest[from \in 1..(Len(s) + 1)] ==
            LET i == Find(s, sep, from)
            IN  IF i = 0
                THEN <<SubSeq(s, from, Len(s))>>
                ELSE <<SubSeq(s, from, i - 1)>> \o rest[i + Len(sep)]
    IN  rest[1]

\* s.strip(): what lies between the first and the last character that is
\* not whitespace
Strip(s) ==
    LET solid == {i \in 1..Len(s) : s[i] \notin Whitespace}
    IN  IF solid = {}
        THEN <<>>
        ELSE SubSeq(s, CHOOSE i \in solid : \A j \in solid : i <= j,
                       CHOOSE i \in solid : \A j \in solid : i >= j)

DigitChar == <<"0", "1", "2", "3", "4", "5", "6", "7", "8", "9">>

\* the decimal text an f-string gives a non-negative int
RECURSIVE IntToStr(_)
IntToStr(n) ==
    IF n < 10
    THEN <<DigitChar[n + 1]>>
    ELSE IntToStr(n \div 10) \o <<DigitChar[(n % 10) + 1]>>

\* ------------------------------------------------- call_openai_api, 129-133

\* Lines 132-133 left out: the text after the opening marker is not cut at
\* the closing fence.
ExtractCode_NoClose(test_code) ==
    IF Contains(test_code, OpenMarker)
    THEN Split(test_code, OpenMarker)[2]
    ELSE test_code

\* "Extract code from markdown if present"
ExtractCode(test_code) ==
    IF Contains(test_code, OpenMarker)
    THEN CHOOSE code \in
             {IF Contains(after, Fence) THEN Split(after, Fence)[1] ELSE after :
                 after \in {Split(test_code, OpenMarker)[2]}} : TRUE
    ELSE test_code

\* ------------------------------------------------------------- environment

\* Files on disk (what os.path.exists and open see); the contents stand for
\* Java sources.
SrcA == <<"A">>
SrcB == <<"B">>
PathA == <<"a">> \o JavaSuffix
PathB == <<"b">> \o JavaSuffix
PathMissing == <<"m">> \o JavaSuffix
PathTxt == <<"a", ".", "t", "x", "t">>
PathUnreadable == <<"u">> \o JavaSuffix
PathEmptyFile == <<"e">> \o JavaSuffix

\* What the user may have typed in path_entry when Generate is clicked.
EntryTexts ==
    { <<>>, <<" ">>, <<" ">> \o PathA \o <<" ">>, PathB, PathMissing, PathTxt,
      PathUnreadable, PathEmptyFile }

\* os.path.exists(file_path)
PathExists(p) == p \in {PathA, PathB, PathTxt, PathUnreadable, PathEmptyFile}

\* read_java_file: the text, or None (after a message box) when open fails.
\* None and "" are both falsy at line 85, so None is given as the empty text.
read_java_file(p) ==
    IF p = PathA THEN SrcA
    ELSE IF p = PathB THEN SrcB
    ELSE <<>>

\* create_prompt: the fixed template with java_code inside a java fence.
PromptHead == <<"[Context]...[Java Class to Test]\n">> \o OpenMarker \o <<"\n">>
PromptTail == <<"\n">> \o Fence \o <<"\n\nPlease generate ONLY the test methods...\n">>
create_prompt(java_code) == PromptHead \o java_code \o PromptTail

\* Bodies of a chat-completion response.  A well-formed one is JsonHead,
\* the content, JsonTail (JSON string escapes are not modelled).
JsonHead == "{\"choices\":[{\"message\":{\"content\":\""
JsonTail == "\"}}]}"
JsonBody(content) == <<JsonHead>> \o content \o <<JsonTail>>
BodyNotJson == <<"<html>Bad Gateway</html>">>
BodyNoChoices == <<"{}">>
BodyEmptyChoices == <<"{\"choices\":[]}">>
BodyNullContent == <<"{\"choices\":[{\"message\":{\"content\":null}}]}">>
BodyServerError ==
    <<"s", "e", "r", "v", "e", "r", " ", "e", "r", "r", "o", "r">>

\* Completion texts the endpoint may return in the full model.
ContentPlain == <<" ", "y", "\n">>
ContentFenced ==
    <<"p", " ">> \o OpenMarker \o <<"\n", "x", "\n">> \o Fence \o <<" ", "s">>
Completions == {ContentPlain, ContentFenced}

NoResponse == [status_code |-> 0, text |-> <<>>]

\* What requests.post may return.
Responses ==
    [status_code : {200},
     text : {BodyNotJson, BodyNoChoices, BodyEmptyChoices, BodyNullContent}
            \cup {JsonBody(c) : c \in Completions}]
    \cup {[status_code |-> 500, text |-> BodyServerError],
          [status_code |-> 429, text |-> JsonBody(ContentFenced)]}

\* str(e) of what requests.post may raise.
PostExceptions == {<<"Connection refused">>}

\* response.json() followed by ['choices'][0]['message']['content'] (126-127):
\* the content (a str, or None), or the text of the exception raised.
ParseContent(text) ==
    IF Len(text) >= 2 /\ Head(text) = JsonHead /\ text[Len(text)] = JsonTail
    THEN [raised |-> FALSE, is_str |-> TRUE,
          value |-> SubSeq(text, 2, Len(text) - 1)]
    ELSE IF text = BodyNullContent
    THEN [raised |-> FALSE, is_str |-> FALSE, value |-> <<>>]
    ELSE IF text = BodyNoChoices
    THEN [raised |-> TRUE, is_str |-> FALSE, value |-> <<"'choices'">>]
    ELSE IF text = BodyEmptyChoices
    THEN [raised |-> TRUE, is_str |-> FALSE,
          value |-> <<"list index out of range">>]
    ELSE [raised |-> TRUE, is_str |-> FALSE,
          value |-> <<"Expecting value: line 1 column 1 (char 0)">>]

\* ------------------------------------------------------------------- state

VARIABLES
    output_text,      \* content of the ScrolledText
    status_label,     \* text of the status label
    generate_button,  \* "normal" | "disabled"
    copy_button,      \* "normal" | "disabled"
    clipboard,        \* what pyperclip.copy last received
    main,             \* the presentation thread: in the main loop, or inside
                      \* root.update() of generate_tests with its locals
    threads,          \* the worker threads: locals and position of each
    afterQueue,       \* callbacks scheduled with root.after(0, ...)
    timers,           \* pending root.after(2000, ...) of copy_to_clipboard
    shown,            \* history: the delivery whose result the output shows
    lastAction        \* history: the step taken last

ui == <<output_text, status_label, generate_button, copy_button>>
vars ==
    <<output_text, status_label, generate_button, copy_button, clipboard,
      main, threads, afterQueue, timers, shown, lastAction>>

ThreadIds == 1..MaxThreads

NoThread ==
    [pc |-> "none", java_code |-> <<>>, file_path |-> <<>>, prompt |-> <<>>,
     response |-> NoResponse, test_code |-> <<>>, is_str |-> TRUE,
     exc |-> <<>>, posts |-> 0, scheduled |-> 0]

NoCallback == [fn |-> "none", arg |-> <<>>, by |-> 0]
NoShown == [cb |-> NoCallback, th |-> NoThread]
MainLoop == [pc |-> "mainloop", java_code |-> <<>>, file_path |-> <<>>]

\* JUnitTestGenerator.__init__ / setup_ui, with the API key present
Init ==
    /\ output_text = <<>>
    /\ status_label = "Ready"
    /\ generate_button = "normal"
    /\ copy_button = "disabled"
    /\ clipboard = <<>>
    /\ main = MainLoop
    /\ threads = [t \in ThreadIds |-> NoThread]
    /\ afterQueue = <<>>
    /\ timers = 0
    /\ shown = NoShown
    /\ lastAction = "init"

\* ------------------------------------------------- the presentation thread

\* generate_tests, lines 70-86: the checks that let a click through
Validates(entry) ==
    LET file_path == Strip(entry)
    IN  /\ file_path # <<>>
        /\ PathExists(file_path)
        /\ EndsWith(file_path, JavaSuffix)
        /\ read_java_file(file_path) # <<>>

\* generate_tests, lines 70-86, a check fails: a message box (none for an
\* empty file), then return
generate_tests_rejected(entry) ==
    /\ ~Validates(entry)
    /\ lastAction' = "generate_rejected"
    /\ UNCHANGED <<ui, clipboard, main, threads, afterQueue, timers, shown>>

\* Line 90 left out: Generate stays enabled while the request runs.
generate_tests_accepted_NoDisable(entry) ==
    /\ Validates(entry)
    /\ output_text' = <<>>
    /\ copy_button' = "disabled"
    /\ status_label' = "Generating tests..."
    /\ main' = [pc |-> "update", java_code |-> read_java_file(Strip(entry)),
                file_path |-> Strip(entry)]
    /\ shown' = NoShown
    /\ lastAction' = "generate_accepted"
    /\ UNCHANGED <<generate_button, clipboard, threads, afterQueue, timers>>

\* Line 91 left out: Copy stays as it was while the request runs.
generate_tests_accepted_CopyStays(entry) ==
    /\ Validates(entry)
    /\ output_text' = <<>>
    /\ generate_button' = "disabled"
    /\ status_label' = "Generating tests..."
    /\ main' = [pc |-> "update", java_code |-> read_java_file(Strip(entry)),
                file_path |-> Strip(entry)]
    /\ shown' = NoShown
    /\ lastAction' = "generate_accepted"
    /\ UNCHANGED <<copy_button, clipboard, threads, afterQueue, timers>>

\* generate_tests, lines 88-93: clear the output, disable both buttons, set
\* the label and enter root.update()
generate_tests_accepted(entry) ==
    /\ Validates(entry)
    /\ output_text' = <<>>
    /\ generate_button' = "disabled"
    /\ copy_button' = "disabled"
    /\ status_label' = "Generating tests..."
    /\ main' = [pc |-> "update", java_code |-> read_java_file(Strip(entry)),
                file_path |-> Strip(entry)]
    /\ shown' = NoShown
    /\ lastAction' = "generate_accepted"
    /\ UNCHANGED <<clipboard, threads, afterQueue, timers>>

\* A click on the enabled Generate button (Tk calls command=generate_tests).
\* Inside root.update() the button is always disabled (line 90), so an
\* accepted click is an event of the main loop.
ClickGenerate ==
    /\ main.pc = "mainloop"
    /\ generate_button = "normal"
    /\ \E entry \in EntryTexts :
          \/ generate_tests_rejected(entry)
          \/ generate_tests_accepted(entry)

\* A click on the disabled Generate button: Tk does not call the command.
ClickGenerateDisabled ==
    /\ generate_button = "disabled"
    /\ lastAction' = "generate_ignored"
    /\ UNCHANGED <<ui, clipboard, main, threads, afterQueue, timers, shown>>

FreeIds == {t \in ThreadIds : threads[t].pc = "none"}

\* generate_tests, lines 96-98: root.update() has returned; start the daemon
\* thread on call_openai_api(java_code, file_path) and return to the main loop
StartThread ==
    /\ main.pc = "update"
    /\ FreeIds # {}
    /\ LET t == CHOOSE i \in FreeIds : \A j \in FreeIds : i <= j
       IN  threads' = [threads EXCEPT ![t] =
                          [NoThread EXCEPT !.pc = "start",
                                           !.java_code = main.java_code,
                                           !.file_path = main.file_path]]
    /\ main' = MainLoop
    /\ lastAction' = "thread_started"
    /\ UNCHANGED <<ui, clipboard, afterQueue, timers, shown>>

\* copy_to_clipboard, lines 159-162.  Text.get(1.0, END) includes the final
\* newline of the widget.
copy_to_clipboard ==
    /\ clipboard' = output_text \o <<"\n">>
    /\ status_label' = "Copied to clipboard!"
    /\ timers' = timers + 1
    /\ lastAction' = "copy"
    /\ UNCHANGED <<output_text, generate_button, copy_button, main, threads,
                   afterQueue, shown>>

\* A click on the enabled Copy button.
ClickCopy ==
    /\ main.pc = "mainloop"
    /\ copy_button = "normal"
    /\ timers < MaxTimers
    /\ copy_to_clipboard

\* A click on the disabled Copy button: Tk does not call the command.
ClickCopyDisabled ==
    /\ copy_button = "disabled"
    /\ lastAction' = "copy_ignored"
    /\ UNCHANGED <<ui, clipboard, main, threads, afterQueue, timers, shown>>

\* The lambda of line 162, run by the main loop, or by root.update(), once
\* its 2000 ms have passed.
TimerFires ==
    /\ timers > 0
    /\ timers' = timers - 1
    /\ status_label' = "Ready"
    /\ lastAction' = "timer"
    /\ UNCHANGED <<output_text, generate_button, copy_button, clipboard, main,
                   threads, afterQueue, shown>>

\* update_ui_with_result, lines 145-149
update_ui_with_result(test_code) ==
    /\ output_text' = test_code
    /\ generate_button' = "normal"
    /\ copy_button' = "normal"
    /\ status_label' = "Tests generated successfully!"

\* Line 154 left out: a failure does not enable Generate again.
show_error_NoEnable(error_message) ==
    /\ output_text' = error_message
    /\ copy_button' = "disabled"
    /\ status_label' = "Error occurred"
    /\ UNCHANGED generate_button

\* show_error, lines 152-156
show_error(error_message) ==
    /\ output_text' = error_message
    /\ generate_button' = "normal"
    /\ copy_button' = "disabled"
    /\ status_label' = "Error occurred"

\* The main loop (or root.update()) runs the oldest root.after(0, ...)
\* callback.  The worker that scheduled it has ended; its slot is released.
RunCallback ==
    /\ afterQueue # <<>>
    /\ LET cb == Head(afterQueue)
       IN  /\ \/ cb.fn = "update_ui_with_result" /\ update_ui_with_result(cb.arg)
              \/ cb.fn = "show_error" /\ show_error(cb.arg)
           /\ shown' = [cb |-> cb, th |-> threads[cb.by]]
           /\ threads' = [threads EXCEPT ![cb.by] = NoThread]
           /\ lastAction' = cb.fn
    /\ afterQueue' = Tail(afterQueue)
    /\ UNCHANGED <<clipboard, main, timers>>

\* --------------------------------------------- the worker: call_openai_api

\* root.after(0, fn, arg) called by worker t
Schedule(t, fn, arg) ==
    afterQueue' = Append(afterQueue, [fn |-> fn, arg |-> arg, by |-> t])

\* lines 102-117: build the prompt, the headers and the payload
WorkerPrompt(t) ==
    /\ threads[t].pc = "start"
    /\ threads' = [threads EXCEPT ![t].pc = "post",
                                  ![t].prompt = create_prompt(threads[t].java_code)]
    /\ lastAction' = "worker"
    /\ UNCHANGED <<ui, clipboard, main, afterQueue, timers, shown>>

\* lines 119-123: requests.post returns a response, or raises
WorkerPost(t) ==
    /\ threads[t].pc = "post"
    /\ \/ \E r \in Responses :
             threads' = [threads EXCEPT ![t].pc = "status",
                                        ![t].response = r,
                                        ![t].posts = @ + 1]
       \/ \E e \in PostExceptions :
             threads' = [threads EXCEPT ![t].pc = "except",
                                        ![t].exc = e,
                                        ![t].posts = @ + 1]
    /\ lastAction' = "worker"
    /\ UNCHANGED <<ui, clipboard, main, afterQueue, timers, shown>>

\* lines 125-127: status 200; parse the body and take the first choice
WorkerParse(t) ==
    /\ threads[t].pc = "status"
    /\ threads[t].response.status_code = 200
    /\ LET c == ParseContent(threads[t].response.text)
       IN  threads' = IF c.raised
                      THEN [threads EXCEPT ![t].pc = "except", ![t].exc = c.value]
                      ELSE [threads EXCEPT ![t].pc = "extract",
                                           ![t].test_code = c.value,
                                           ![t].is_str = c.is_str]
    /\ lastAction' = "worker"
    /\ UNCHANGED <<ui, clipboard, main, afterQueue, timers, shown>>

\* Line 136 moved before the extraction: the result is scheduled first, so a
\* content that is None is followed by a show_error as well.
WorkerExtract_ScheduleFirst(t) ==
    /\ threads[t].pc = "extract"
    /\ Schedule(t, "update_ui_with_result", threads[t].test_code)
    /\ threads' = IF threads[t].is_str
                  THEN [threads EXCEPT ![t].pc = "done",
                                       ![t].scheduled = @ + 1]
                  ELSE [threads EXCEPT ![t].pc = "except",
                                       ![t].scheduled = @ + 1,
                                       ![t].exc = <<"'NoneType' object has no attribute 'strip'">>]
    /\ lastAction' = "worker"
    /\ UNCHANGED <<ui, clipboard, main, timers, shown>>

\* lines 130-136: take the code out of the markdown and schedule
\* update_ui_with_result; a content that is None raises at line 130
WorkerExtract(t) ==
    /\ threads[t].pc = "extract"
    /\ \/ /\ threads[t].is_str
          /\ \E code \in {ExtractCode(threads[t].test_code)} :
                /\ \E stripped \in {Strip(code)} :
                      Schedule(t, "update_ui_with_result", stripped)
                /\ threads' = [threads EXCEPT ![t].pc = "done",
                                              ![t].test_code = code,
                                              ![t].scheduled = @ + 1]
       \/ /\ ~threads[t].is_str
          /\ threads' = [threads EXCEPT ![t].pc = "except", ![t].exc =
                            <<"argument of type 'NoneType' is not iterable">>]
          /\ UNCHANGED afterQueue
    /\ lastAction' = "worker"
    /\ UNCHANGED <<ui, clipboard, main, timers, shown>>

\* Line 138 without the body of the response.
ApiErrorMessage_NoBody(response) ==
    <<"API Error: ">> \o IntToStr(response.status_code)

\* the text of line 138
ApiErrorMessage(response) ==
    <<"API Error: ">> \o IntToStr(response.status_code) \o <<"\n">>
        \o response.text

\* lines 137-139: any other status; schedule show_error
WorkerApiError(t) ==
    /\ threads[t].pc = "status"
    /\ threads[t].response.status_code # 200
    /\ Schedule(t, "show_error", ApiErrorMessage(threads[t].response))
    /\ threads' = [threads EXCEPT ![t].pc = "done", ![t].scheduled = @ + 1]
    /\ lastAction' = "worker"
    /\ UNCHANGED <<ui, clipboard, main, timers, shown>>

\* the text of line 142
ExceptionMessage(exc) == <<"Error: ">> \o exc

\* Line 142 calling show_error on the worker's own thread.
WorkerExcept_Direct(t) ==
    /\ threads[t].pc = "except"
    /\ show_error(ExceptionMessage(threads[t].exc))
    /\ threads' = [threads EXCEPT ![t].pc = "done"]
    /\ lastAction' = "worker"
    /\ UNCHANGED <<clipboard, main, afterQueue, timers, shown>>

\* lines 141-142: except Exception; schedule show_error
WorkerExcept(t) ==
    /\ threads[t].pc = "except"
    /\ Schedule(t, "show_error", ExceptionMessage(threads[t].exc))
    /\ threads' = [threads EXCEPT ![t].pc = "done", ![t].scheduled = @ + 1]
    /\ lastAction' = "worker"
    /\ UNCHANGED <<ui, clipboard, main, timers, shown>>

\* --------------------------------------------------------- specifications

WorkerNext ==
    \E t \in ThreadIds :
        \/ WorkerPrompt(t)
        \/ WorkerPost(t)
        \/ WorkerParse(t)
        \/ WorkerExtract(t)
        \/ WorkerApiError(t)
        \/ WorkerExcept(t)

MainNext ==
    \/ ClickGenerate
    \/ ClickGenerateDisabled
    \/ StartThread
    \/ ClickCopy
    \/ ClickCopyDisabled
    \/ TimerFires
    \/ RunCallback

Next == MainNext \/ WorkerNext

Spec == Init /\ [][Next]_vars

\* --------------------------------------- the extraction on many completions

\* Completion texts assembled from at most MaxPieces pieces.
Pieces == {<<"x">>, <<" ">>, <<BT>>, OpenMarker, Fence}

RECURSIVE Flatten(_)
Flatten(ps) == IF ps = <<>> THEN <<>> ELSE Head(ps) \o Flatten(Tail(ps))

RawInputs ==
    {Flatten(ps) : ps \in UNION {[1..n -> Pieces] : n \in 0..MaxPieces}}

\* A request in flight whose POST returned 200 with completion text raw, the
\* worker standing before line 130.
InitExtract ==
    /\ output_text = <<>>
    /\ status_label = "Generating tests..."
    /\ generate_button = "disabled"
    /\ copy_button = "disabled"
    /\ clipboard = <<>>
    /\ main = MainLoop
    /\ \E raw \in RawInputs :
          threads = [t \in ThreadIds |->
                        IF t = 1
                        THEN [NoThread EXCEPT
                                 !.pc = "extract",
                                 !.java_code = SrcA,
                                 !.file_path = PathA,
                                 !.prompt = create_prompt(SrcA),
                                 !.response = [status_code |-> 200,
                                               text |-> JsonBody(raw)],
                                 !.test_code = raw,
                                 !.posts = 1]
                        ELSE NoThread]
    /\ afterQueue = <<>>
    /\ timers = 0
    /\ shown = NoShown
    /\ lastAction = "worker"

ExtractStep == \E t \in ThreadIds : WorkerExtract(t)

NextExtract == ExtractStep \/ RunCallback

SpecExtract == InitExtract /\ [][NextExtract]_vars

\* The completion text a worker received (the content of its 200 response).
RawOf(th) == ParseContent(th.response.text).value

\* The two-marker scan of the specification: from just after the first
\* opening marker to the first fence that follows, else to the end; trimmed.
RefExtract(raw) ==
    LET i == Find(raw, OpenMarker, 1)
        start == i + Len(OpenMarker)
        j == Find(raw, Fence, start)
    IN  IF i = 0 THEN Strip(raw)
        ELSE IF j = 0 THEN Strip(SubSeq(raw, start, Len(raw)))
        ELSE Strip(SubSeq(raw, start, j - 1))

\* Successful results: scheduled and not yet run, or the one on display.
SuccessResults ==
    {[arg |-> afterQueue[k].arg, raw |-> RawOf(threads[afterQueue[k].by])] :
        k \in {n \in 1..Len(afterQueue) :
                  afterQueue[n].fn = "update_ui_with_result"}}
    \cup (IF shown.cb.fn = "update_ui_with_result"
          THEN {[arg |-> shown.cb.arg, raw |-> RawOf(shown.th)]}
          ELSE {})

\* C4 (as claimed): for every completion text, the result handed to
\* update_ui_with_result is what the two-marker scan gives.
C4_SplitEqualsScan == \A r \in SuccessResults : r.arg = RefExtract(r.raw)

\* raw holds an opening marker, a closing fence after it, and one more fence
\* (of any kind) after that: more than one fenced block.
MultiBlock(raw) ==
    LET i == Find(raw, OpenMarker, 1)
        j == IF i = 0 THEN 0 ELSE Find(raw, Fence, i + Len(OpenMarker))
        k == IF j = 0 THEN 0 ELSE Find(raw, Fence, j + Len(Fence))
    IN  k # 0

InFlight ==
    Cardinality({t \in ThreadIds : threads[t].pc # "none"})
        + (IF main.pc = "update" THEN 1 ELSE 0)

\* A step in which the user clicked Generate.
GenerateClicked ==
    lastAction' \in {"generate_accepted", "generate_rejected", "generate_ignored"}

\* C1: at most one worker is in flight in every reachable state, and a click
\* on Generate while a request is in flight starts nothing and leaves the
\* request in flight (its source text, its position, its scheduled result)
\* as it is.
C1_AtMostOneInFlight ==
    /\ [](InFlight <= 1)
    /\ [][(InFlight >= 1 /\ GenerateClicked)
            => UNCHANGED <<threads, afterQueue, main>>]_vars

\* C1 witness: Generate has just been clicked while the one worker was
\* waiting for its response, and the button is disabled.
C1_Witness ==
    /\ lastAction = "generate_ignored"
    /\ generate_button = "disabled"
    /\ InFlight = 1
    /\ \E t \in ThreadIds : threads[t].pc = "post" /\ threads[t].java_code = SrcA

\* How the HTTP exchange of a worker went.
OutcomeOf(th) ==
    IF th.posts = 0 THEN "pending"
    ELSE IF th.response = NoResponse THEN "transport"
    ELSE IF th.response.status_code # 200 THEN "status"
    ELSE IF ParseContent(th.response.text).raised
            \/ ~ParseContent(th.response.text).is_str THEN "malformed"
    ELSE "success"

Outcomes == {"success", "status", "transport", "malformed"}

\* The worker runs on, and the main loop keeps serving its events.
FairSpec ==
    /\ Spec
    /\ WF_vars(WorkerNext)
    /\ WF_vars(StartThread)
    /\ WF_vars(RunCallback)

\* C2: every accepted start returns to Idle: whenever Generate is disabled
\* it is later enabled again, for each outcome of the exchange its result is
\* delivered with Generate enabled, and with Generate enabled in the main
\* loop a click with a valid path is accepted and its worker can be started.
C2_AlwaysReturnsToIdle ==
    /\ (generate_button = "disabled") ~> (generate_button = "normal")
    /\ \A o \in Outcomes :
          (\E t \in ThreadIds : OutcomeOf(threads[t]) = o)
              ~> (generate_button = "normal" /\ OutcomeOf(shown.th) = o)
    /\ [](generate_button = "normal" /\ main.pc = "mainloop"
            => ENABLED generate_tests_accepted(PathB))
    /\ [](main.pc = "update" => ENABLED StartThread)

\* C2 witness: the result of a malformed 200 response has been delivered
\* and Generate is enabled again.
C2_Witness ==
    /\ generate_button = "normal"
    /\ lastAction = "show_error"
    /\ OutcomeOf(shown.th) = "malformed"

\* The callbacks in the queue that worker t scheduled.
QueuedBy(t) == {k \in 1..Len(afterQueue) : afterQueue[k].by = t}

\* C3: a worker that has ended issued exactly one POST and scheduled exactly
\* one callback, which is waiting in the queue; a worker still running has
\* scheduled none and posted at most once; an exception after the 200 branch
\* was entered ends in one show_error and no update_ui_with_result.
C3_ExactlyOneResult ==
    \A t \in ThreadIds :
        LET th == threads[t]
        IN  /\ th.pc = "done" =>
                /\ th.posts = 1
                /\ th.scheduled = 1
                /\ Cardinality(QueuedBy(t)) = 1
            /\ th.pc # "done" =>
                /\ th.posts <= 1
                /\ th.scheduled = 0
                /\ QueuedBy(t) = {}
            /\ (th.pc = "done" /\ OutcomeOf(th) = "malformed") =>
                \A k \in QueuedBy(t) : afterQueue[k].fn = "show_error"
            /\ (th.pc = "done" /\ OutcomeOf(th) = "success") =>
                \A k \in QueuedBy(t) : afterQueue[k].fn = "update_ui_with_result"

\* C3 witness: a worker whose 200 response carried a null content (the
\* exception rises at line 130) has ended with one show_error scheduled.
C3_Witness ==
    \E t \in ThreadIds :
        /\ threads[t].pc = "done"
        /\ threads[t].response = [status_code |-> 200, text |-> BodyNullContent]
        /\ Len(afterQueue) = 1
        /\ afterQueue[1].fn = "show_error"

\* Results of workers that received a response or an exception: scheduled
\* and not yet run, or the one on display.
Results ==
    {[cb |-> afterQueue[k], th |-> threads[afterQueue[k].by]] :
        k \in 1..Len(afterQueue)}
    \cup (IF shown.cb.fn # "none" THEN {shown} ELSE {})

\* C6: a response whose status is not 200 is delivered by show_error, its
\* message holds the decimal status code and the whole body text as
\* received, and the worker never took a content out of that body.
C6_Non200IsFailureWithStatusAndBody ==
    /\ \A r \in Results :
          OutcomeOf(r.th) = "status" =>
              /\ r.cb.fn = "show_error"
              /\ Contains(r.cb.arg, IntToStr(r.th.response.status_code))
              /\ Contains(r.cb.arg, r.th.response.text)
              /\ r.th.test_code = <<>>
    /\ (shown.cb.fn = "show_error" /\ OutcomeOf(shown.th) = "status")
          => output_text = shown.cb.arg

\* C6 witness: status 500 with body "server error" is on display.
C6_Witness ==
    /\ lastAction = "show_error"
    /\ shown.th.response = [status_code |-> 500, text |-> BodyServerError]
    /\ Contains(output_text, <<"5", "0", "0">>)
    /\ Contains(output_text, BodyServerError)

\* The kind a delivered message shows: line 138 writes "API Error: ...",
\* line 142 writes "Error: ...".
KindOf(message) ==
    IF message # <<>> /\ Head(message) = "API Error: "
    THEN "ApiError"
    ELSE "NetworkError"

\* C7 (as claimed): a non-200 status and a malformed 200 response are
\* delivered as ApiError, a failure of the POST as NetworkError.
C7_KindsAsSpecified ==
    \A r \in Results :
        /\ OutcomeOf(r.th) \in {"status", "malformed"}
              => r.cb.fn = "show_error" /\ KindOf(r.cb.arg) = "ApiError"
        /\ OutcomeOf(r.th) = "transport"
              => r.cb.fn = "show_error" /\ KindOf(r.cb.arg) = "NetworkError"

\* --------------------------------------------------- claims: presentation

\* C8: Copy is enabled only while the output shows the extracted code of
\* the latest successful generation; it is disabled at the start, while a
\* request is in flight, and after a failure, when the output shows the
\* error message as delivered and Generate is enabled again.
C8_CopyOnlyOnSuccess ==
    /\ copy_button = "normal" =>
          /\ shown.cb.fn = "update_ui_with_result"
          /\ OutcomeOf(shown.th) = "success"
          /\ output_text = Strip(ExtractCode(RawOf(shown.th)))
    /\ lastAction = "init" => copy_button = "disabled"
    /\ InFlight >= 1 => copy_button = "disabled" /\ generate_button = "disabled"
    /\ shown.cb.fn = "show_error" =>
          /\ copy_button = "disabled"
          /\ generate_button = "normal"
          /\ output_text = shown.cb.arg

\* C8 witness: after a success, a Copy click and a Generate click that the
\* validation rejected, Copy is still enabled over the extracted code.
C8_Witness ==
    /\ copy_button = "normal"
    /\ lastAction = "generate_rejected"
    /\ clipboard = <<"x", "\n">>
    /\ output_text = <<"x">>
    /\ RawOf(shown.th) = ContentFenced

\* C9: a step of the worker leaves the output, the label, both buttons and
\* the clipboard as they are and adds at most one callback to the queue;
\* the widgets change only in steps of the presentation thread; and
\* generate_tests is back in the main loop when the worker has not yet
\* built its request.
C9_WorkerLeavesWidgets ==
    [][ /\ WorkerNext =>
            /\ UNCHANGED <<ui, clipboard, main>>
            /\ \/ afterQueue' = afterQueue
               \/ /\ Len(afterQueue') = Len(afterQueue) + 1
                  /\ SubSeq(afterQueue', 1, Len(afterQueue)) = afterQueue
        /\ ui' # ui => MainNext /\ ~WorkerNext
        /\ lastAction' = "thread_started" =>
            /\ main'.pc = "mainloop"
            /\ \E t \in ThreadIds :
                  /\ threads[t].pc = "none"
                  /\ threads'[t].pc = "start"
                  /\ threads'[t].posts = 0
      ]_vars

\* C9 witness: a worker has ended and its callback waits in the queue while
\* the window still shows the request as running.
C9_Witness ==
    /\ Len(afterQueue) = 1
    /\ afterQueue[1].fn = "update_ui_with_result"
    /\ output_text = <<>>
    /\ status_label = "Generating tests..."
    /\ generate_button = "disabled"
    /\ copy_button = "disabled"

\* C10 (as claimed): the label agrees with the dispatcher: whenever a
\* request is in flight (Generate disabled) it reads "Generating tests...";
\* the "Ready" timer of an earlier Copy click never fires over it.
C10_LabelAgrees ==
    generate_button = "disabled" => status_label = "Generating tests..."

====
